---- MODULE Spec2Model ----
(***************************************************************************)
(* Traffic-sign detection page (app.py).  One browser session of the      *)
(* Streamlit script: every user interaction re-executes main() from the   *)
(* top.  The detection capability (YOLO), the image decoder and the       *)
(* widget framework are external; they are modelled by what main()        *)
(* receives from them.                                                     *)
(*                                                                         *)
(* Confidences are fixed-point hundredths (90 is 0.90), box coordinates   *)
(* are fixed-point tenths (1005 is 100.5).                                 *)
(***************************************************************************)
EXTENDS Integers, Sequences, FiniteSets, TLC

VARIABLES
    pc,             \* position of the current script run in main(); "idle" between runs
    cache,          \* st.cache_resource entry of load_model: 0 = empty, else the handle
    loadCount,      \* number of executions of YOLO("best.pt") in this process
    returned,       \* handles load_model has returned so far
    model,          \* main(): local `model` (0 before line 66)
    uploaded_file,  \* file_uploader widget value: NoFile or the uploaded bytes
    pressed,        \* value st.button returns in this run
    image,          \* main(): local `image`
    progress,       \* last value given to progress_bar.progress
    predicted,      \* model.predict has been invoked in this run
    results,        \* main(): local `results`, the detections of results.boxes
    exception,      \* exception that escaped main() in this run, "none" if none
    screen          \* what this run has rendered

vars == <<pc, cache, loadCount, returned, model, uploaded_file, pressed, image,
          progress, predicted, results, exception, screen>>

-----------------------------------------------------------------------------
(* Bounds and inputs *)

\* Longest detection sequence the detection capability returns.
MaxDet == 3

\* range(100) of the progress loop.
ProgressSteps == 100

\* Confidence thresholds of create_confidence_bar, in hundredths.
HighThreshold == 70
MediumThreshold == 50

NoFile == "None"

\* Uploads the user can make: two well-formed images and one truncated file.
WellFormed == {"sign_a.jpg", "sign_b.png"}
UploadBytes == WellFormed \cup {"truncated.jpg"}

\* Confidences the capability reports (all above conf=0.25) and class ids.
Confidences == {40, 50, 60, 70, 90}
ClassIds == {0, 1}

\* Boxes the capability reports, as x1,y1,x2,y2 of the resized image.
Boxes == {<<1005, 2000, 3005, 4500>>, <<0, 17, 6399, 6400>>}

\* The elements results.boxes can hold.
Detections == [cls : ClassIds, conf : Confidences, xyxy : Boxes]

\* Every result model.predict(...)[0].boxes can hold within the bound.
DetectionResults == UNION {[1..n -> Detections] : n \in 0..MaxDet}

\* model.names, the label table of the loaded model.
names == (0 :> "stop") @@ (1 :> "speed limit")

-----------------------------------------------------------------------------
(* Formatting: Python format specs applied to the fixed-point values *)

TwoDigits(n) == IF n < 10 THEN "0" \o ToString(n) ELSE ToString(n)

\* a / b rounded to the nearest integer, ties to even (a >= 0, b > 0).
RoundDiv(a, b) ==
    LET q == a \div b
        r == a % b
    IN  IF 2 * r > b THEN q + 1
        ELSE IF 2 * r < b THEN q
        ELSE IF q % 2 = 0 THEN q ELSE q + 1

\* f"{x:.2%}" for x = h / (100 * n): h hundredths shared among n.
FormatPercent(h, n) ==
    LET bp == RoundDiv(h * 100, n)
    IN  ToString(bp \div 100) \o "." \o TwoDigits(bp % 100) \o "%"

\* f"{v:.1f}" for v = t / 10.
FormatFixed1(t) == ToString(t \div 10) \o "." \o ToString(t % 10)

-----------------------------------------------------------------------------
(* Functions of app.py and the external calls of main() *)

\* cv2.imdecode: a pixel array, or None when the bytes are no image.
None == [src |-> "None", w |-> 0, h |-> 0]

imdecode(bytes) ==
    IF bytes \in WellFormed
    THEN [src |-> bytes, w |-> IF bytes = "sign_a.jpg" THEN 640 ELSE 800,
                         h |-> IF bytes = "sign_a.jpg" THEN 480 ELSE 600]
    ELSE None

\* cv2.resize(image, (640, 640))
resize(img) == [img EXCEPT !.w = 640, !.h = 640]

\* load_model without the cache: every call constructs a model.
load_model_uncached ==
    [handle |-> loadCount + 1, loads |-> loadCount + 1, entry |-> loadCount + 1]

\* @st.cache_resource load_model(): the handle the call returns and the
\* number of YOLO("best.pt") executions after it.  A miss constructs a new
\* model object and stores it; a hit returns the stored one.
load_model ==
    IF cache # 0
    THEN [handle |-> cache, loads |-> loadCount, entry |-> cache]
    ELSE [handle |-> loadCount + 1, loads |-> loadCount + 1, entry |-> loadCount + 1]

\* create_confidence_bar: the bar's width and colour.
create_confidence_bar(confidence) ==
    [width |-> confidence,
     color |-> IF confidence > HighThreshold THEN "green"
               ELSE IF confidence > MediumThreshold THEN "orange"
               ELSE "red"]

\* Body of the loop over enumerate(results.boxes): one expander.
Expander(idx, box) ==
    LET class_id == box.cls
        conf == box.conf
        class_name == names[class_id]
        box_coords == box.xyxy
    IN  [title |-> "Detection " \o ToString(idx + 1) \o ": " \o class_name,
         score |-> "**Confidence Score:** " \o FormatPercent(conf, 1),
         bar |-> create_confidence_bar(conf),
         code |-> "X1: " \o FormatFixed1(box_coords[1]) \o ", Y1: "
                  \o FormatFixed1(box_coords[2]) \o "\nX2: "
                  \o FormatFixed1(box_coords[3]) \o ", Y2: "
                  \o FormatFixed1(box_coords[4])]

\* The loop stopping one box early.
Expanders_drop_last(boxes) ==
    [k \in 1..(Len(boxes) - 1) |-> Expander(k - 1, boxes[k])]

\* The loop walking the boxes by descending position.
Expanders_reversed(boxes) ==
    [k \in 1..Len(boxes) |-> Expander(k - 1, boxes[Len(boxes) + 1 - k])]

\* The branch of line 110 taken only for two boxes or more.
HasDetections_off_by_one(boxes) == Len(boxes) > 1

\* Line 110: len(results.boxes) > 0
HasDetections(boxes) == Len(boxes) > 0

\* for idx, box in enumerate(results.boxes): idx runs from 0.
Expanders(boxes) == [k \in 1..Len(boxes) |-> Expander(k - 1, boxes[k])]

RECURSIVE SumConf(_)
SumConf(boxes) ==
    IF boxes = <<>> THEN 0 ELSE boxes[1].conf + SumConf(Tail(boxes))

\* f"{np.mean(conf):.2%}": the mean of no values is nan.
np_mean(boxes) ==
    IF Len(boxes) = 0 THEN "nan%" ELSE FormatPercent(SumConf(boxes), Len(boxes))

\* Text of the "Average Confidence" metric without the empty-result guard.
avg_conf_unguarded(boxes) == np_mean(boxes)

\* avg_conf as formatted at line 136: np.mean of the confidences if there
\* are boxes, else 0.
avg_conf(boxes) ==
    IF Len(boxes) > 0 THEN np_mean(boxes) ELSE FormatPercent(0, 1)

\* Number of class values counted without building the set.
unique_classes_no_set(boxes) == Len(boxes)

\* unique_classes: len(set(cls)), or 0 for no boxes.
unique_classes(boxes) ==
    IF Len(boxes) > 0 THEN Cardinality({boxes[k].cls : k \in 1..Len(boxes)})
    ELSE 0

\* The three st.metric calls, in column order.
SummaryMetrics(boxes) ==
    << <<"Total Detections", ToString(Len(boxes))>>,
       <<"Average Confidence", avg_conf(boxes)>>,
       <<"Unique Sign Types", ToString(unique_classes(boxes))>> >>

-----------------------------------------------------------------------------
(* The page *)

\* Nothing rendered yet: the page as a script run starts to fill it.
EmptyScreen ==
    [title |-> FALSE, uploader |-> FALSE, original |-> None, button |-> FALSE,
     annotated |-> None, panels |-> <<>>, notices |-> 0, metrics |-> <<>>,
     footer |-> FALSE, error |-> "none"]

Init ==
    /\ pc = "idle"
    /\ cache = 0
    /\ loadCount = 0
    /\ returned = {}
    /\ model = 0
    /\ uploaded_file = NoFile
    /\ pressed = FALSE
    /\ image = None
    /\ progress = 0
    /\ predicted = FALSE
    /\ results = <<>>
    /\ exception = "none"
    /\ screen = EmptyScreen

\* A script run starts at the top of main() with fresh locals and an empty
\* page; the header (lines 59-62) is rendered.
StartRun ==
    /\ pc' = "load"
    /\ model' = 0
    /\ image' = None
    /\ progress' = 0
    /\ predicted' = FALSE
    /\ results' = <<>>
    /\ exception' = "none"
    /\ screen' = [EmptyScreen EXCEPT !.title = TRUE]
    /\ UNCHANGED <<cache, loadCount, returned>>

\* The user puts a file into the uploader (any bytes with an accepted
\* extension); the page re-executes and the button reads False.
Upload(bytes) ==
    /\ pc = "idle"
    /\ screen.uploader
    /\ uploaded_file' = bytes
    /\ pressed' = FALSE
    /\ StartRun

\* The user removes the file from the uploader.
RemoveFile ==
    /\ pc = "idle"
    /\ screen.uploader
    /\ uploaded_file # NoFile
    /\ uploaded_file' = NoFile
    /\ pressed' = FALSE
    /\ StartRun

\* The user presses "Analyze Image", which the last run rendered: the page
\* re-executes and the button reads True in that run only.
PressAnalyze ==
    /\ pc = "idle"
    /\ screen.button
    /\ pressed' = TRUE
    /\ UNCHANGED uploaded_file
    /\ StartRun

\* Any other re-execution: the first page load, a browser reload.
Rerun ==
    /\ pc = "idle"
    /\ pressed' = FALSE
    /\ UNCHANGED uploaded_file
    /\ StartRun

\* Lines 64-74: model = load_model(), then the uploader is rendered.
LoadModel ==
    /\ pc = "load"
    /\ model' = load_model.handle
    /\ loadCount' = load_model.loads
    /\ cache' = load_model.entry
    /\ returned' = returned \cup {load_model.handle}
    /\ screen' = [screen EXCEPT !.uploader = TRUE]
    /\ pc' = IF uploaded_file # NoFile THEN "decode" ELSE "footer"
    /\ UNCHANGED <<uploaded_file, pressed, image, progress, predicted, results,
                   exception>>

\* Lines 78-86: decode the upload and show it.  st.image of a None image
\* raises, and nothing in main() catches it: the run ends there.
Decode ==
    /\ pc = "decode"
    /\ image' = imdecode(uploaded_file)
    /\ IF image' = None
       THEN /\ exception' = "st.image"
            /\ screen' = [screen EXCEPT !.error = "traceback"]
            /\ pc' = "idle"
       ELSE /\ exception' = exception
            /\ screen' = [screen EXCEPT !.original = image']
            /\ pc' = "button"
    /\ UNCHANGED <<cache, loadCount, returned, model, uploaded_file, pressed,
                   progress, predicted, results>>

\* The button rendered but its value ignored: the analysis always runs.
Button_ignores_press ==
    /\ pc = "button"
    /\ screen' = [screen EXCEPT !.button = TRUE]
    /\ pc' = "progress"
    /\ UNCHANGED <<cache, loadCount, returned, model, uploaded_file, pressed,
                   image, progress, predicted, results, exception>>

\* Line 89: the button is rendered and read.
Button ==
    /\ pc = "button"
    /\ screen' = [screen EXCEPT !.button = TRUE]
    /\ pc' = IF pressed THEN "progress" ELSE "footer"
    /\ UNCHANGED <<cache, loadCount, returned, model, uploaded_file, pressed,
                   image, progress, predicted, results, exception>>

\* Lines 92-95: one iteration of the progress loop.
ProgressStep ==
    /\ pc = "progress"
    /\ progress < ProgressSteps
    /\ progress' = progress + 1
    /\ UNCHANGED <<pc, cache, loadCount, returned, model, uploaded_file, pressed,
                   image, predicted, results, exception, screen>>

\* Lines 98-104: resize, predict, plot and show the annotated image.  The
\* detection capability returns any result within the bound.
Predict ==
    /\ pc = "progress"
    /\ progress = ProgressSteps
    /\ \E boxes \in DetectionResults : results' = boxes
    /\ predicted' = TRUE
    /\ screen' = [screen EXCEPT !.annotated = resize(image)]
    /\ pc' = "present"
    /\ UNCHANGED <<cache, loadCount, returned, model, uploaded_file, pressed,
                   image, progress, exception>>

\* Line 99 raising: nothing in main() catches it, the run ends there.
PredictFails ==
    /\ pc = "progress"
    /\ progress = ProgressSteps
    /\ predicted' = TRUE
    /\ exception' = "predict"
    /\ screen' = [screen EXCEPT !.error = "traceback"]
    /\ pc' = "idle"
    /\ UNCHANGED <<cache, loadCount, returned, model, uploaded_file, pressed,
                   image, progress, results>>

\* Lines 107-128: one expander per box, or the warning.
Present ==
    /\ pc = "present"
    /\ IF HasDetections(results)
       THEN screen' = [screen EXCEPT !.panels = Expanders(results)]
       ELSE screen' = [screen EXCEPT !.notices = @ + 1]
    /\ pc' = "metrics"
    /\ UNCHANGED <<cache, loadCount, returned, model, uploaded_file, pressed,
                   image, progress, predicted, results, exception>>

\* Lines 131-139: the summary metrics.
Metrics ==
    /\ pc = "metrics"
    /\ screen' = [screen EXCEPT !.metrics = SummaryMetrics(results)]
    /\ pc' = "footer"
    /\ UNCHANGED <<cache, loadCount, returned, model, uploaded_file, pressed,
                   image, progress, predicted, results, exception>>

\* Lines 142-147: the footer; main() returns.
Footer ==
    /\ pc = "footer"
    /\ screen' = [screen EXCEPT !.footer = TRUE]
    /\ pc' = "idle"
    /\ UNCHANGED <<cache, loadCount, returned, model, uploaded_file, pressed,
                   image, progress, predicted, results, exception>>

Next ==
    \/ \E bytes \in UploadBytes : Upload(bytes)
    \/ RemoveFile
    \/ PressAnalyze
    \/ Rerun
    \/ LoadModel
    \/ Decode
    \/ Button
    \/ ProgressStep
    \/ Predict
    \/ PredictFails
    \/ Present
    \/ Metrics
    \/ Footer

Spec == Init /\ [][Next]_vars

-----------------------------------------------------------------------------
(* Properties *)

\* The analysis of this run went through the panels and the metrics.
Analysed == predicted /\ exception = "none" /\ pc \in {"footer", "idle"}

\* The analysis of this run went through the panels (line 128 reached).
Presented == predicted /\ exception = "none" /\ pc \in {"metrics", "footer", "idle"}

\* The tier the specification assigns to a confidence: boundaries go up.
TierInclusive(c) ==
    IF c >= HighThreshold THEN "green"
    ELSE IF c >= MediumThreshold THEN "orange"
    ELSE "red"

\* C1 (as stated): every rendered confidence bar is green for a confidence
\* >= 0.7, orange for 0.5 <= confidence < 0.7 and red below 0.5.
C1_BoundariesInHigherTier ==
    Presented =>
        \A k \in 1..Len(screen.panels) :
            screen.panels[k].bar.color = TierInclusive(results[k].conf)

\* C2 (as stated): a run on malformed upload bytes ends with a decode-error
\* message on the page and no exception escaping main(), without invoking
\* inference, and with the uploader still there for the next upload.
C2_MalformedUploadHandled ==
    (pc = "idle" /\ uploaded_file \in UploadBytes \ WellFormed) =>
        /\ exception = "none"
        /\ screen.error = "message"
        /\ ~predicted
        /\ screen.uploader

\* C3: the model is constructed once for all page runs, and every call of
\* load_model returns that one handle.
C3_ModelLoadedOnce ==
    /\ loadCount <= 1
    /\ Cardinality(returned) <= 1
    /\ (pc # "idle" /\ pc # "load") => (loadCount = 1 /\ returned = {model})
    /\ screen.title /\ pc = "idle" => (loadCount = 1 /\ returned = {model})

\* C3 witness: an analysis is on the page (the third run at the earliest)
\* and the model was constructed once.
C3_Witness ==
    /\ Analysed
    /\ pc = "idle"
    /\ loadCount = 1
    /\ returned = {1}

\* C4: once the metrics are rendered, the number of expanders, the number
\* of detections returned and the "Total Detections" value are the same.
C4_PanelCountIsDetectionCount ==
    Analysed =>
        /\ Len(screen.panels) = Len(results)
        /\ screen.metrics[1] = <<"Total Detections", ToString(Len(results))>>
        /\ screen.metrics[1][2] = ToString(Len(screen.panels))

\* C4 witness: a completed analysis with three detections and three panels.
C4_Witness ==
    /\ Analysed
    /\ pc = "idle"
    /\ Len(results) = 3
    /\ Len(screen.panels) = 3
    /\ screen.metrics[1][2] = "3"

\* C5: an analysis with no detections runs on to the end without an
\* exception and shows 0.00% as average confidence and 0 as sign types.
C5_EmptyResultAggregates ==
    (predicted /\ results = <<>> /\ pc \in {"present", "metrics", "footer", "idle"}
            /\ screen.annotated # None) =>
        /\ exception = "none"
        /\ screen.error = "none"
        /\ pc \in {"footer", "idle"} =>
              /\ screen.metrics[2] = <<"Average Confidence", "0.00%">>
              /\ screen.metrics[3] = <<"Unique Sign Types", "0">>
        /\ pc = "idle" => screen.footer

\* C5 witness: a completed analysis with no detections.
C5_Witness ==
    /\ Analysed
    /\ pc = "idle"
    /\ results = <<>>
    /\ screen.metrics[2][2] = "0.00%"

\* C6 (as stated): when model.predict fails, the run ends with an error
\* message on the page and no exception escapes main().
C6_InferenceFailureCaught ==
    (pc = "idle" /\ predicted /\ screen.annotated = None) =>
        /\ exception = "none"
        /\ screen.error = "message"

Abs(x) == IF x < 0 THEN -x ELSE x

\* Class ids occurring in a detection sequence.
ClassesIn(boxes) == {c \in ClassIds : \E k \in 1..Len(boxes) : boxes[k].cls = c}

\* Text of a percentage given in basis points, two decimals.
BasisPointsText(bp) ==
    ToString(bp \div 100) \o "." \o TwoDigits(bp % 100) \o "%"

\* C7: the three metrics are the aggregates of the returned detections: the
\* length, the mean confidence to the nearest hundredth of a percent, and
\* the number of distinct class ids; 0.9, 0.6, 0.4 over two classes give
\* 3, 63.33% and 2.
C7_MetricsAreAggregates ==
    Analysed =>
        LET n == Len(results)
            total == SumConf(results)
        IN  /\ Len(screen.metrics) = 3
            /\ screen.metrics[1] = <<"Total Detections", ToString(n)>>
            /\ screen.metrics[2][1] = "Average Confidence"
            /\ screen.metrics[3] =
                   <<"Unique Sign Types", ToString(Cardinality(ClassesIn(results)))>>
            /\ n > 0 =>
                  \E bp \in {(100 * total) \div n, (100 * total) \div n + 1} :
                      /\ 2 * Abs(bp * n - 100 * total) <= n
                      /\ screen.metrics[2][2] = BasisPointsText(bp)
            /\ (n = 3 /\ results[1].conf = 90 /\ results[2].conf = 60
                      /\ results[3].conf = 40 /\ Cardinality(ClassesIn(results)) = 2) =>
                  /\ screen.metrics[1][2] = "3"
                  /\ screen.metrics[2][2] = "63.33%"
                  /\ screen.metrics[3][2] = "2"

\* C7 witness: the 0.9, 0.6, 0.4 result over two classes, analysed.
C7_Witness ==
    /\ Analysed
    /\ pc = "idle"
    /\ Len(results) = 3
    /\ results[1].conf = 90 /\ results[2].conf = 60 /\ results[3].conf = 40
    /\ results[1].cls = 0 /\ results[2].cls = 1 /\ results[3].cls = 0
    /\ screen.metrics[2][2] = "63.33%"
    /\ screen.metrics[3][2] = "2"

\* C8: the "No traffic signs detected" warning is on the page exactly when
\* an analysis returned no detections, then once and with no expanders; a
\* non-empty result has expanders and no warning.
C8_NoticeIffEmpty ==
    /\ screen.notices <= 1
    /\ Presented =>
          /\ (screen.notices = 1) <=> (results = <<>>)
          /\ results = <<>> => screen.panels = <<>>
          /\ results # <<>> => (Len(screen.panels) >= 1 /\ screen.notices = 0)
    /\ ~Presented => (screen.notices = 0 /\ screen.panels = <<>>)

\* C8 witness: a completed analysis without detections shows the warning.
C8_Witness ==
    /\ Presented
    /\ pc = "idle"
    /\ results = <<>>
    /\ screen.notices = 1
    /\ screen.panels = <<>>

\* Label and coordinate texts the page is to show, written out.
LabelText(cls) == IF cls = 0 THEN "stop" ELSE "speed limit"

CoordinateText(xyxy) ==
    IF xyxy = <<1005, 2000, 3005, 4500>>
    THEN "X1: 100.5, Y1: 200.0\nX2: 300.5, Y2: 450.0"
    ELSE "X1: 0.0, Y1: 1.7\nX2: 639.9, Y2: 640.0"

\* C10: the k-th expander is titled "Detection k" with the class name of
\* the k-th returned detection and shows that detection's confidence and
\* box: the order of the detections is kept.
C10_PanelsInDetectionOrder ==
    Presented =>
        /\ Len(screen.panels) = Len(results)
        /\ \A k \in 1..Len(results) :
              /\ screen.panels[k].title =
                     "Detection " \o ToString(k) \o ": " \o LabelText(results[k].cls)
              /\ screen.panels[k].score =
                     "**Confidence Score:** " \o ToString(results[k].conf) \o ".00%"
              /\ screen.panels[k].bar.width = results[k].conf
              /\ screen.panels[k].code = CoordinateText(results[k].xyxy)

\* C10 witness: three detections returned in an order that is sorted neither
\* by confidence nor by class, each shown in its place.
C10_Witness ==
    /\ Presented
    /\ pc = "idle"
    /\ Len(results) = 3
    /\ results[1].conf = 60 /\ results[2].conf = 90 /\ results[3].conf = 40
    /\ results[1].cls = 1 /\ results[2].cls = 0 /\ results[3].cls = 1
    /\ results[1].xyxy # results[2].xyxy
    /\ screen.panels[1].title = "Detection 1: speed limit"
    /\ screen.panels[2].title = "Detection 2: stop"
    /\ screen.panels[2].score = "**Confidence Score:** 90.00%"
    /\ screen.panels[3].title = "Detection 3: speed limit"

\* Detection results of any kind on the page.
ShowsResults ==
    \/ screen.annotated # None
    \/ screen.panels # <<>>
    \/ screen.notices > 0
    \/ screen.metrics # <<>>

\* C11: model.predict is invoked only in a run that has an uploaded file and
\* in which Analyze was pressed, and only once the progress bar has gone
\* through 1..100 one step at a time; what a run shows comes from the bytes
\* uploaded in that run; a run without an Analyze press shows no results.
C11_PredictOnlyOnAnalyzeOfThisUpload ==
    /\ [](/\ predicted =>
                /\ pressed
                /\ uploaded_file \in WellFormed
                /\ image = imdecode(uploaded_file)
                /\ progress = ProgressSteps
          /\ pc = "progress" => pressed
          /\ (progress > 0 \/ ShowsResults) => (pressed /\ uploaded_file # NoFile)
          /\ ShowsResults => predicted
          /\ screen.original # None => screen.original.src = uploaded_file
          /\ screen.annotated # None =>
                /\ screen.annotated.src = uploaded_file
                /\ screen.annotated.w = 640 /\ screen.annotated.h = 640
          /\ ~pressed => ~ShowsResults)
    /\ [][/\ progress' \in {0, progress, progress + 1}
          /\ predicted' /\ ~predicted => progress = ProgressSteps]_vars

\* C11 witness: after an upload of sign_b.png and an Analyze press, the run
\* has stepped the bar to 100, invoked predict and shows that file's results.
C11_Witness ==
    /\ pc = "idle"
    /\ pressed
    /\ predicted
    /\ progress = ProgressSteps
    /\ uploaded_file = "sign_b.png"
    /\ screen.annotated.src = "sign_b.png"
    /\ screen.original.src = "sign_b.png"
    /\ Len(screen.panels) = 2
    /\ Len(screen.metrics) = 3

====
